---- MODULE Spec2Model ----
(***************************************************************************)
(* StudyPad web client: the retrying HTTP transport of lib/api/client.ts,  *)
(* the API facade built on it, the chat, studio and upload pages with      *)
(* their stores, and the documents page over the query layer.              *)
(*                                                                         *)
(* One facade call is a record of `calls`; the axios response interceptor  *)
(* runs as one step per answered attempt, the backoff timer as another.    *)
(* A promise continuation (the code after an `await api.xxx(...)`) runs in *)
(* the same event-loop turn as the settlement of the call, so it is part   *)
(* of the step that settles the call.                                      *)
(***************************************************************************)
EXTENDS Integers, Sequences, FiniteSets, TLC

VARIABLES
    calls,        \* facade calls, in order of issue: request config + promise state
    hist,         \* observer: the answers to the attempts of call 1, oldest first
    messages,     \* useChatStore.messages
    isLoading,    \* useChatStore.isLoading
    currentDocId, \* useChatStore.currentDocId (no page calls setCurrentDocId)
    input,        \* ChatPage textarea text (React state), a sequence of characters
    toasts,       \* notifications raised through sonner's toast, oldest first
    nextId,       \* number of ids handed out by crypto.randomUUID so far
    lastOp,       \* observer: the page handler that ran last, else "other"
    jobs,             \* useStudioStore.jobs
    selectedDocId,    \* StudioPage state: the document chosen in the select
    processingAction, \* StudioPage state: the action being generated, or null
    uploads,          \* UploadPage state: the upload items
    batches,          \* the file lists handleFiles was called with so far, oldest first
    documents,        \* the entry of the query ['documents'] in the query cache
    deleteDialog      \* DocumentsPage state: deleteDialogOpen and selectedDocId

vars == <<calls, hist, messages, isLoading, currentDocId, input, toasts, nextId, lastOp,
          jobs, selectedDocId, processingAction, uploads, batches,
          documents, deleteDialog>>

chatVars == <<messages, isLoading, currentDocId, input, toasts, nextId>>

studioVars == <<jobs, selectedDocId, processingAction>>

uploadVars == <<uploads, batches>>

docsVars == <<documents, deleteDialog>>

----------------------------------------------------------------------------
(* Bounds of the model *)

\* facade calls issued by the pages in one behaviour
MaxCalls == 2

\* notifications raised by triggers that are refused
MaxToasts == 1

\* calls of handleFiles (drops and file selections) in one behaviour
MaxBatches == 1

\* deletions confirmed in the dialog of the documents page in one behaviour
MaxDeletes == 1

\* fetches of the document list (retries not counted) in one behaviour
MaxFetches == 1

(* Program constants *)

\* config.api.retryAttempts
MAX_RETRIES == 3

\* config.api.retryDelay (milliseconds)
RETRY_DELAY == 1000

\* value of originalRequest._retry before the interceptor has set it (undefined)
Undefined == -1

\* config.upload.maxSize (bytes)
maxSize == 10485760

\* config.upload.allowedTypes
allowedTypes == {"application/pdf"}

----------------------------------------------------------------------------
(* Text helpers *)

\* a sequence of one-character strings as one string
RECURSIVE Str(_)
Str(cs) == IF cs = <<>> THEN "" ELSE Head(cs) \o Str(Tail(cs))

\* characters String.prototype.trim strips
Whitespace == {" ", "\n", "\t"}

RECURSIVE TrimStart(_)
TrimStart(cs) ==
    IF cs # <<>> /\ Head(cs) \in Whitespace THEN TrimStart(Tail(cs)) ELSE cs

RECURSIVE TrimEnd(_)
TrimEnd(cs) ==
    IF cs # <<>> /\ cs[Len(cs)] \in Whitespace
    THEN TrimEnd(SubSeq(cs, 1, Len(cs) - 1))
    ELSE cs

\* String.prototype.trim
Trim(cs) == TrimEnd(TrimStart(cs))

\* Array.prototype.join
RECURSIVE Join(_, _)
Join(strs, sep) ==
    IF strs = <<>> THEN ""
    ELSE IF Len(strs) = 1 THEN strs[1]
    ELSE strs[1] \o sep \o Join(Tail(strs), sep)

\* Math.pow(2, n) for the non-negative integers the client passes
RECURSIVE Pow2(_)
Pow2(n) == IF n = 0 THEN 1 ELSE 2 * Pow2(n - 1)

----------------------------------------------------------------------------
(* Backend answers (inputs of the model) *)

\* the six operations of the facade object `api`
FacadeOps ==
    {"uploadDocument", "getDocuments", "deleteDocument", "query", "studio", "healthCheck"}

\* ErrorResponse.detail: a string, a list of {msg, type}, or anything else
NoDetail == [kind |-> "none"]

Details ==
    { NoDetail,
      [kind |-> "string", text |-> "Document not found"],
      [kind |-> "array", items |-> <<>>],
      [kind |-> "array", items |-> <<[msg |-> "field required", type |-> "missing"]>>],
      [kind |-> "array", items |-> <<[msg |-> "field required", type |-> "missing"],
                                     [msg |-> "value is not a valid integer", type |-> "type_error"]>>],
      [kind |-> "array", items |-> <<[msg |-> "value is not a valid integer", type |-> "type_error"],
                                     [msg |-> "field required", type |-> "missing"]>>] }

\* statuses axios rejects (validateStatus: outside 200..299)
FailStatuses == {400, 404, 422, 428, 429, 430, 499, 500, 503, 599}

\* AxiosError of an attempt that got a response
ResponseError(status, detail) ==
    [config |-> TRUE, response |-> TRUE, status |-> status, detail |-> detail,
     request |-> TRUE, message |-> "Request failed with status code"]

\* AxiosError of an attempt that was sent and got no response (network, timeout)
NetworkError ==
    [config |-> TRUE, response |-> FALSE, status |-> 0, detail |-> NoDetail,
     request |-> TRUE, message |-> "Network Error"]

\* AxiosError raised while the request was being set up (nothing was sent)
SetupError ==
    [config |-> TRUE, response |-> FALSE, status |-> 0, detail |-> NoDetail,
     request |-> FALSE, message |-> "Unsupported protocol"]

Errors ==
    {ResponseError(s, d) : s \in FailStatuses, d \in Details}
        \cup {NetworkError, SetupError}

NoError == [config |-> FALSE]

\* source citations of a QueryResponse
Source1 == [page |-> 3, content |-> "Employees accrue vacation monthly"]

\* response.data of a 2xx answer, by operation
Payloads(op) ==
    CASE op = "query" ->
            { [answer |-> "Vacations are...", sources |-> <<>>],
              [answer |-> "See page 3", sources |-> <<Source1>>] }
      [] op = "getDocuments" ->
            { [documents |-> <<>>], [documents |-> <<"doc-1">>] }
      [] op = "uploadDocument" ->
            { [filename |-> "a.pdf", doc_id |-> "doc-1"] }
      [] op = "deleteDocument" ->
            { [message |-> "deleted"] }
      [] op = "studio" ->
            { [status |-> "success", result |-> [content |-> "Briefing..."], message |-> "undefined"],
              [status |-> "error", result |-> "undefined", message |-> "Document is empty"],
              [status |-> "error", result |-> "undefined", message |-> "undefined"],
              [status |-> "processing", result |-> "undefined", message |-> "undefined"] }
      [] OTHER ->
            { [status |-> "ok"] }

NoData == [none |-> TRUE]

----------------------------------------------------------------------------
(* lib/api/client.ts: retry policy *)

shouldRetry_no429(error) ==
    IF ~error.response THEN TRUE
    ELSE error.status >= 500 /\ error.status < 600

shouldRetry_networkOnly(error) == ~error.response

shouldRetry(error) ==
    IF ~error.response THEN TRUE
    ELSE IF error.status >= 500 /\ error.status < 600 THEN TRUE
    ELSE IF error.status = 429 THEN TRUE
    ELSE FALSE

\* the delay wait(ms, attempt) sleeps for
wait_linear(ms, attempt) == ms * (attempt + 1)

wait(ms, attempt) == ms * Pow2(attempt)

\* the budget test of the interceptor: originalRequest._retry < MAX_RETRIES
hasBudget_inclusive(retry) == retry <= MAX_RETRIES

hasBudget(retry) == retry < MAX_RETRIES

\* lines 98-123: the message of the final error
errorMessage_transportText(error) ==
    IF error.response THEN
        IF error.detail.kind = "string" THEN error.detail.text
        ELSE IF error.detail.kind = "array"
             THEN Join([i \in 1..Len(error.detail.items) |-> error.detail.items[i].msg], ", ")
             ELSE error.message
    ELSE IF error.request THEN "Network error: Unable to reach server"
    ELSE error.message

errorMessage(error) ==
    IF error.response THEN
        IF error.detail.kind = "string" THEN error.detail.text
        ELSE IF error.detail.kind = "array"
             THEN Join([i \in 1..Len(error.detail.items) |-> error.detail.items[i].msg], ", ")
             ELSE "An error occurred"
    ELSE IF error.request THEN "Network error: Unable to reach server"
    ELSE error.message

----------------------------------------------------------------------------
(* lib/api/client.ts: one facade call and the response interceptor *)

\* the request config and promise of a call issued through apiClient
NewCall(op, request, cont) ==
    [op |-> op, request |-> request, cont |-> cont,
     retry |-> Undefined,      \* originalRequest._retry
     pc |-> "inflight",        \* inflight | waiting | resolved | rejected
     outstanding |-> 1,        \* HTTP attempts of this call sent and not yet answered
     attempts |-> 1,           \* HTTP attempts of this call sent so far
     waits |-> <<>>,           \* delays of the backoff waits started so far
     raised |-> NoError,       \* error of the last failed attempt, as axios raised it
     err |-> NoError,          \* the error the call rejected with
     data |-> NoData,          \* the payload the call resolved with
     loaded |-> 0]             \* bytes of the request body the current attempt has sent

\* lines 72-75: `if (originalRequest && !originalRequest._retry) _retry = 0`
initRetry(retry) == IF retry = Undefined \/ retry = 0 THEN 0 ELSE retry

\* lines 126-127: the error the call rejects with
finalError(error) == [error EXCEPT !.message = errorMessage(error)]

\* rejected handler of the interceptor, with the retry fired without waiting
\* for the timer and fired again by the timer
onRejected_speculative(call, error) ==
    LET r0 == initRetry(call.retry) IN
    IF error.config /\ shouldRetry(error) /\ hasBudget(r0)
    THEN [call EXCEPT !.retry = r0 + 1,
                      !.pc = "waiting",
                      !.attempts = @ + 1,
                      !.waits = Append(@, wait(RETRY_DELAY, (r0 + 1) - 1)),
                      !.raised = error]
    ELSE [call EXCEPT !.retry = IF error.config THEN r0 ELSE @,
                      !.pc = "rejected",
                      !.outstanding = @ - 1,
                      !.raised = error,
                      !.err = finalError(error)]

\* lines 69-128: rejected handler of the response interceptor, up to the await
\* of wait(...) on the retry path, to the rejection otherwise
onRejected(call, error) ==
    LET r0 == initRetry(call.retry) IN
    IF error.config /\ shouldRetry(error) /\ hasBudget(r0)
    THEN [call EXCEPT !.retry = r0 + 1,
                      !.pc = "waiting",
                      !.outstanding = @ - 1,
                      !.waits = Append(@, wait(RETRY_DELAY, (r0 + 1) - 1)),
                      !.raised = error]
    ELSE [call EXCEPT !.retry = IF error.config THEN r0 ELSE @,
                      !.pc = "rejected",
                      !.outstanding = @ - 1,
                      !.raised = error,
                      !.err = finalError(error)]

\* lines 89-94: the wait is over, the same request config is sent again
reissue(call) ==
    [call EXCEPT !.pc = "inflight",
                 !.outstanding = @ + 1,
                 !.attempts = @ + 1,
                 !.raised = NoError,
                 !.loaded = 0]

\* line 68 and the facade's `return response.data`
onFulfilled(call, payload) ==
    [call EXCEPT !.pc = "resolved", !.outstanding = @ - 1, !.data = payload]

----------------------------------------------------------------------------
(* stores/chat-store.ts *)

\* object spread {...a, ...b}
Spread(a, b) ==
    [k \in DOMAIN a \cup DOMAIN b |-> IF k \in DOMAIN b THEN b[k] ELSE a[k]]

\* addMessage with `id` the value crypto.randomUUID returns; the wall-clock
\* timestamp of the message is not modelled
addMessage(msgs, message, id) == Append(msgs, Spread(message, [id |-> id]))

\* updateMessage writing to the last message of the list
updateMessage_last(msgs, id, updates) ==
    [i \in 1..Len(msgs) |-> IF i = Len(msgs) THEN Spread(msgs[i], updates) ELSE msgs[i]]

\* updateMessage that adds the message when no message has the id
updateMessage_upsert(msgs, id, updates) ==
    IF \E i \in 1..Len(msgs) : msgs[i].id = id
    THEN [i \in 1..Len(msgs) |-> IF msgs[i].id = id THEN Spread(msgs[i], updates) ELSE msgs[i]]
    ELSE Append(msgs, Spread([id |-> id], updates))

updateMessage(msgs, id, updates) ==
    [i \in 1..Len(msgs) |-> IF msgs[i].id = id THEN Spread(msgs[i], updates) ELSE msgs[i]]

\* currentDocId when no document scope is selected
Null == "null"

\* `currentDocId || undefined`
docScope(docId) == IF docId = Null \/ docId = "" THEN "undefined" ELSE docId

----------------------------------------------------------------------------
(* app/page.tsx: ChatPage *)

\* texts the user can type: empty, whitespace only, plain, padded
Inputs == { <<>>, <<" ">>, <<"h", "i">>, <<" ", "h", "i", "\n">> }

\* the continuation of a facade call nobody awaits in the model
NoCont == [kind |-> "none"]

\* the success branch without `isLoading: false`
chatThen_keepsLoading(msgs, assistantMsgId, response) ==
    updateMessage(msgs, assistantMsgId,
        [content |-> response.answer, sources |-> response.sources])

\* lines 58-62: the code after `await api.query(...)` when it resolved
chatThen(msgs, assistantMsgId, response) ==
    updateMessage(msgs, assistantMsgId,
        [content |-> response.answer, sources |-> response.sources, isLoading |-> FALSE])

\* a catch block that rolls the placeholder back instead of marking it
chatCatch_rollback(msgs, assistantMsgId, errorText) ==
    SelectSeq(msgs, LAMBDA m : m.id # assistantMsgId)

\* lines 63-69: the catch block
chatCatch(msgs, assistantMsgId, errorText) ==
    updateMessage(msgs, assistantMsgId,
        [content |-> "Error: " \o errorText, isLoading |-> FALSE])

\* lines 57-73: the rest of handleSubmit, run when its query has settled
chatSettled(call) ==
        /\ messages' =
             IF call.pc = "resolved"
             THEN chatThen(messages, call.cont.assistantMsgId, call.data)
             ELSE chatCatch(messages, call.cont.assistantMsgId, call.err.message)
        /\ toasts' =
             IF call.pc = "resolved" THEN toasts
             ELSE Append(toasts, [level |-> "error", text |-> call.err.message])
        /\ isLoading' = FALSE
        /\ UNCHANGED <<currentDocId, input, nextId, studioVars, uploadVars, docsVars>>

\* the guard of handleSubmit, dropped
emptyInput_never(text) == FALSE

\* line 27: `!input.trim()`
emptyInput(text) == Trim(text) = <<>>

\* the two messages of a submission, appended in the other order
submitMessages_swapped(msgs, userMessage, id) ==
    addMessage(
        addMessage(msgs, [role |-> "assistant", content |-> "", isLoading |-> TRUE], id + 1),
        [role |-> "user", content |-> userMessage], id + 2)

\* line 29: `input.trim()`
submitText(text) == Str(Trim(text))

\* lines 33-43: the two addMessage calls of a submission
submitMessages(msgs, userMessage, id) ==
    addMessage(
        addMessage(msgs, [role |-> "user", content |-> userMessage], id + 1),
        [role |-> "assistant", content |-> "", isLoading |-> TRUE], id + 2)

\* lines 24-56: handleSubmit up to the await (form submit or Enter key)
handleSubmit ==
    /\ lastOp' = "handleSubmit"
    /\ UNCHANGED <<hist, currentDocId, toasts, studioVars, uploadVars, docsVars>>
    /\ IF emptyInput(input)
       THEN UNCHANGED <<calls, messages, isLoading, input, nextId>>
       ELSE /\ Len(calls) < MaxCalls
            /\ LET userMessage == submitText(input)
                   msgs == submitMessages(messages, userMessage, nextId)
                   assistantMsgId == msgs[Len(msgs)].id
               IN /\ input' = <<>>
                  /\ messages' = msgs
                  /\ nextId' = nextId + 2
                  /\ isLoading' = TRUE
                  /\ calls' = Append(calls,
                        NewCall("query",
                                [query |-> userMessage, doc_id |-> docScope(currentDocId)],
                                [kind |-> "chat", assistantMsgId |-> assistantMsgId,
                                 messagesAtIssue |-> Len(msgs)]))

\* line 181: onChange of the textarea
setInput(text) ==
    /\ text # input
    /\ input' = text
    /\ lastOp' = "other"
    /\ UNCHANGED <<calls, hist, messages, isLoading, currentDocId, toasts, nextId>>
    /\ UNCHANGED <<studioVars, uploadVars, docsVars>>

\* chat-store clearMessages
clearMessages ==
    /\ messages # <<>>
    /\ messages' = <<>>
    /\ lastOp' = "other"
    /\ UNCHANGED <<calls, hist, isLoading, currentDocId, input, toasts, nextId>>
    /\ UNCHANGED <<studioVars, uploadVars, docsVars>>

----------------------------------------------------------------------------
(* stores/studio-store.ts *)

\* addJob with `id` the value crypto.randomUUID returns; created_at is the
\* wall clock and is not modelled
addJob(js, job, id) == Append(js, Spread(job, [id |-> id]))

\* updateJob without the test of the id
updateJob_all(js, id, updates) ==
    [i \in 1..Len(js) |-> Spread(js[i], updates)]

updateJob(js, id, updates) ==
    [i \in 1..Len(js) |-> IF js[i].id = id THEN Spread(js[i], updates) ELSE js[i]]

----------------------------------------------------------------------------
(* StudioPage *)

\* String.prototype.replace(pattern, replacement) with a string pattern: the
\* first occurrence only
RECURSIVE Replace(_, _, _)
Replace(cs, pattern, replacement) ==
    IF Len(cs) < Len(pattern) THEN cs
    ELSE IF SubSeq(cs, 1, Len(pattern)) = pattern
         THEN replacement \o SubSeq(cs, Len(pattern) + 1, Len(cs))
         ELSE <<Head(cs)>> \o Replace(Tail(cs), pattern, replacement)

\* 'generate_'
GeneratePrefix == <<"g", "e", "n", "e", "r", "a", "t", "e", "_">>

\* the ids of studioActions, as sequences of characters
StudioActions ==
    { GeneratePrefix \o <<"a", "u", "d", "i", "o">>,
      GeneratePrefix \o <<"v", "i", "d", "e", "o">>,
      GeneratePrefix \o <<"b", "r", "i", "e", "f", "i", "n", "g">>,
      GeneratePrefix \o <<"s", "t", "u", "d", "y", "_", "g", "u", "i", "d", "e">> }

\* ids of the documents the select offers
Docs == {"doc-1", "doc-2"}

\* `a || b` on strings
OrElse(a, b) == IF a = "undefined" \/ a = "" THEN b ELSE a

\* the job type kept as the action id
jobType_keepsPrefix(action) == Str(action)

\* line 76: action.replace('generate_', '')
jobType(action) == Str(Replace(action, GeneratePrefix, <<>>))

\* the success branch taken for every answer that is not an error
studioThen_optimistic(js, jobId, response) ==
    IF response.status # "error"
    THEN updateJob(js, jobId,
             [status |-> "complete", completed_at |-> "Date", result |-> response.result])
    ELSE updateJob(js, jobId,
             [status |-> "error", error |-> OrElse(response.message, "Generation failed")])

\* lines 92-105: the code after `await api.studio(...)` when it resolved;
\* completed_at holds a Date, whose value is not modelled
studioThen(js, jobId, response) ==
    IF response.status = "success"
    THEN updateJob(js, jobId,
             [status |-> "complete", completed_at |-> "Date", result |-> response.result])
    ELSE IF response.status = "error"
    THEN updateJob(js, jobId,
             [status |-> "error", error |-> OrElse(response.message, "Generation failed")])
    ELSE js

\* lines 98 and 104: the notification of the resolved branch
studioThenToasts(response) ==
    IF response.status = "success"
    THEN <<[level |-> "success", text |-> "Generation completed!"]>>
    ELSE IF response.status = "error"
    THEN <<[level |-> "error", text |-> OrElse(response.message, "Generation failed")]>>
    ELSE <<>>

\* lines 106-112: the catch block
studioCatch(js, jobId, errorText) ==
    updateJob(js, jobId, [status |-> "error", error |-> errorText])

\* lines 92-115: the rest of handleGenerate, run when its request has settled
studioSettled(call) ==
    /\ jobs' = IF call.pc = "resolved"
               THEN studioThen(jobs, call.cont.jobId, call.data)
               ELSE studioCatch(jobs, call.cont.jobId, call.err.message)
    /\ toasts' = IF call.pc = "resolved"
                 THEN toasts \o studioThenToasts(call.data)
                 ELSE Append(toasts, [level |-> "error", text |-> call.err.message])
    /\ processingAction' = Null
    /\ UNCHANGED <<messages, isLoading, currentDocId, input, nextId, selectedDocId, uploadVars, docsVars>>

\* lines 67-90: handleGenerate up to the await
handleGenerate(action) ==
    /\ lastOp' = "handleGenerate"
    /\ UNCHANGED <<hist, messages, isLoading, currentDocId, input, selectedDocId, uploadVars, docsVars>>
    /\ IF selectedDocId = ""
       THEN /\ toasts' = Append(toasts,
                   [level |-> "error", text |-> "Please select a document first"])
            /\ UNCHANGED <<calls, jobs, processingAction, nextId>>
       ELSE LET js == addJob(jobs,
                          [type |-> jobType(action), status |-> "processing",
                           doc_id |-> selectedDocId],
                          nextId + 1)
                jobId == js[Len(js)].id
            IN /\ processingAction' = Str(action)
               /\ jobs' = js
               /\ nextId' = nextId + 1
               /\ toasts' = toasts
               /\ calls' = Append(calls,
                     NewCall("studio",
                             [action |-> Str(action), doc_id |-> selectedDocId],
                             [kind |-> "studio", jobId |-> jobId]))

\* a Generate button that stays enabled while a generation is running
generateDisabled_docOnly == selectedDocId = ""

\* line 188: the `disabled` attribute of every Generate button
generateDisabled == selectedDocId = "" \/ processingAction # Null

\* line 154: onValueChange of the document select
setSelectedDocId(docId) ==
    /\ docId # selectedDocId
    /\ selectedDocId' = docId
    /\ lastOp' = "other"
    /\ UNCHANGED <<calls, hist, chatVars, jobs, processingAction, uploadVars, docsVars>>

----------------------------------------------------------------------------
(* QueryProvider and hooks/use-documents.ts: the query ['documents'] *)

\* the query cache before any page has asked for the documents; observers
\* counts the mounted pages that use the query, fetchCount the fetches started
NoQuery ==
    [built |-> FALSE, observers |-> 0, status |-> "pending", fetchStatus |-> "idle",
     data |-> NoData, error |-> NoError, failureCount |-> 0,
     isInvalidated |-> FALSE, fetchCount |-> 0]

\* a retry rule that does not look at the status of the error
queriesRetry_anyStatus(failureCount, error) == failureCount < 2

\* a retry rule that allows one retry more
queriesRetry_thrice(failureCount, error) ==
    IF error.response /\ error.status >= 400 /\ error.status < 500 THEN FALSE
    ELSE failureCount < 3

\* defaultOptions.queries.retry
queriesRetry(failureCount, error) ==
    IF error.response /\ error.status >= 400 /\ error.status < 500 THEN FALSE
    ELSE failureCount < 2

\* defaultOptions.mutations.retry
mutationsRetry == FALSE

\* the request useQuery sends through queryFn for fetch number `fetch`
DocumentsCall(fetch) ==
    NewCall("getDocuments", [path |-> "getDocuments"],
            [kind |-> "documents", fetch |-> fetch])

\* the request of a fetch of the query is sent and not settled
FetchRunning(call) ==
    call.cont.kind = "documents" /\ call.pc \in {"inflight", "waiting"}

\* the query starts a fetch: the failure count starts again from 0
startFetch(q) ==
    [q EXCEPT !.built = TRUE,
              !.fetchStatus = "fetching",
              !.failureCount = 0,
              !.fetchCount = @ + 1,
              !.status = IF q.data = NoData THEN "pending" ELSE @,
              !.error = IF q.data = NoData THEN NoError ELSE @]

\* invalidateQueries marks the entry and fetches again for a mounted page;
\* a first load still under way is joined, not started again
refetches(q) ==
    q.built /\ q.observers > 0 /\ (q.fetchStatus = "idle" \/ q.data # NoData)

\* queryClient.invalidateQueries({ queryKey: ['documents'] })
invalidateQueries(q) ==
    IF ~q.built THEN q
    ELSE IF refetches(q) THEN startFetch([q EXCEPT !.isInvalidated = TRUE])
    ELSE [q EXCEPT !.isInvalidated = TRUE]

\* the query after the request of a fetch has settled
documentsSettled(call) ==
    /\ documents' =
         IF call.pc = "resolved"
         THEN [documents EXCEPT !.status = "success",
                                !.data = call.data,
                                !.error = NoError,
                                !.failureCount = 0,
                                !.fetchStatus = "idle",
                                !.isInvalidated = FALSE]
         ELSE IF queriesRetry(documents.failureCount, call.err)
         THEN [documents EXCEPT !.failureCount = @ + 1]
         ELSE [documents EXCEPT !.status = "error",
                                !.error = call.err,
                                !.failureCount = @ + 1,
                                !.fetchStatus = "idle"]
    /\ UNCHANGED <<chatVars, studioVars, uploadVars, deleteDialog>>

\* the query layer's retry delay is over: queryFn is called again
queryRetryTimer ==
    /\ documents.fetchStatus = "fetching"
    /\ \A c \in DOMAIN calls : ~FetchRunning(calls[c])
    /\ calls' = Append(calls, DocumentsCall(documents.fetchCount))
    /\ lastOp' = "other"
    /\ UNCHANGED <<hist, chatVars, studioVars, uploadVars, docsVars>>

\* the mutation of call c has succeeded: its onSuccess invalidates the query
Invalidates(call) ==
    call.pc = "resolved" /\ call.cont.kind \in {"upload", "delete"}

\* the requests in flight after the onSuccess of `call`: a fetch that is
\* started again leaves the request before it without anyone awaiting it
Superseded(cs, call) ==
    IF Invalidates(call) /\ refetches(documents)
    THEN [c \in DOMAIN cs |->
             IF FetchRunning(cs[c]) THEN [cs[c] EXCEPT !.cont = NoCont] ELSE cs[c]]
    ELSE cs

\* the request of the fetch an invalidation starts
Refetched(call) ==
    IF Invalidates(call) /\ refetches(documents)
    THEN <<DocumentsCall(documents.fetchCount + 1)>>
    ELSE <<>>

\* the request the query layer sends again for a failed mutation
MutationRetried(call) ==
    IF call.pc = "rejected" /\ call.cont.kind \in {"upload", "delete"} /\ mutationsRetry
    THEN <<NewCall(call.op, call.request, call.cont)>>
    ELSE <<>>

----------------------------------------------------------------------------
(* app/page.tsx: DocumentsPage and hooks/use-documents.ts: useDeleteDocument *)

\* the dialog of a freshly mounted page
DialogClosed == [open |-> FALSE, selectedDocId |-> Null]

\* deleteMutation.isPending
deletePending ==
    \E c \in DOMAIN calls :
        calls[c].op = "deleteDocument" /\ calls[c].pc \in {"inflight", "waiting"}

\* the documents the page shows a card for
Rows(q) ==
    IF q.data = NoData THEN {}
    ELSE {q.data.documents[i] : i \in 1..Len(q.data.documents)}

\* the page is opened: useDocuments subscribes to the query, which fetches
\* when it has no data or was invalidated (the page is opened again within
\* the staleTime of one minute)
DocumentsOpened ==
    /\ documents.observers = 0
    /\ LET q == [documents EXCEPT !.observers = 1]
           fetches == q.fetchStatus = "idle" /\ (q.data = NoData \/ q.isInvalidated)
       IN /\ documents' = IF fetches THEN startFetch(q) ELSE q
          /\ calls' = IF fetches
                      THEN Append(calls, DocumentsCall(q.fetchCount + 1))
                      ELSE calls
    /\ deleteDialog' = DialogClosed
    /\ lastOp' = "other"
    /\ UNCHANGED <<hist, chatVars, studioVars, uploadVars>>

\* the user leaves the page (with no deletion pending): its state is dropped
DocumentsLeft ==
    /\ documents.observers = 1
    /\ ~deletePending
    /\ documents' = [documents EXCEPT !.observers = 0]
    /\ deleteDialog' = DialogClosed
    /\ lastOp' = "other"
    /\ UNCHANGED <<calls, hist, chatVars, studioVars, uploadVars>>

\* the Delete button of a card
handleDeleteClick(docId) ==
    /\ documents.observers = 1
    /\ docId \in Rows(documents)
    /\ ~deletePending
    /\ deleteDialog' = [open |-> TRUE, selectedDocId |-> docId]
    /\ lastOp' = "other"
    /\ UNCHANGED <<calls, hist, chatVars, studioVars, uploadVars, documents>>

\* the Cancel button of the dialog
cancelDelete ==
    /\ deleteDialog.open
    /\ deleteDialog' = [deleteDialog EXCEPT !.open = FALSE]
    /\ lastOp' = "other"
    /\ UNCHANGED <<calls, hist, chatVars, studioVars, uploadVars, documents>>

\* the request of the mutation of useDeleteDocument
DeleteCall(docId) ==
    NewCall("deleteDocument", [docId |-> docId], [kind |-> "delete"])

\* handleDeleteConfirm up to the await, behind its button's `disabled`
handleDeleteConfirm ==
    /\ deleteDialog.open
    /\ ~deletePending
    /\ Cardinality({c \in DOMAIN calls : calls[c].op = "deleteDocument"}) < MaxDeletes
    /\ calls' = IF deleteDialog.selectedDocId # Null
                THEN Append(calls, DeleteCall(deleteDialog.selectedDocId))
                ELSE calls
    /\ lastOp' = "handleDeleteConfirm"
    /\ UNCHANGED <<hist, chatVars, studioVars, uploadVars, docsVars>>

\* the notification of the mutation of useDeleteDocument
deleteToast(call) ==
    IF call.pc = "resolved"
    THEN [level |-> "success", text |-> "Document deleted successfully"]
    ELSE [level |-> "error", text |-> "Delete failed: " \o call.err.message]

\* a deletion whose onError marks the list as out of date as well
deleteSettled_invalidatesOnError(call) ==
    /\ documents' = IF documents.built
                    THEN [documents EXCEPT !.isInvalidated = TRUE]
                    ELSE documents
    /\ toasts' = Append(toasts, deleteToast(call))
    /\ deleteDialog' = IF call.pc = "resolved" THEN DialogClosed ELSE deleteDialog
    /\ UNCHANGED <<messages, isLoading, currentDocId, input, nextId, studioVars, uploadVars>>

\* onSuccess / onError of the mutation, then the rest of handleDeleteConfirm,
\* which runs only when mutateAsync resolved
deleteSettled(call) ==
    /\ documents' = IF call.pc = "resolved" THEN invalidateQueries(documents) ELSE documents
    /\ toasts' = Append(toasts, deleteToast(call))
    /\ deleteDialog' = IF call.pc = "resolved" THEN DialogClosed ELSE deleteDialog
    /\ UNCHANGED <<messages, isLoading, currentDocId, input, nextId, studioVars, uploadVars>>

----------------------------------------------------------------------------
(* UploadPage and hooks/use-documents.ts: useUploadDocument *)

\* File objects the user can drop or select: name, declared media type, size in bytes
PdfSmall == [name |-> "a.pdf", type |-> "application/pdf", size |-> 3]

PdfLimit == [name |-> "b.pdf", type |-> "application/pdf", size |-> maxSize]

PdfBig == [name |-> "big.pdf", type |-> "application/pdf", size |-> maxSize + 1]

Txt == [name |-> "notes.txt", type |-> "text/plain", size |-> 1]

TxtBig == [name |-> "dump.txt", type |-> "text/plain", size |-> maxSize + 1]

\* the file lists of one drop or selection
Batches ==
    { <<>>,
      <<PdfSmall, PdfLimit>>,
      <<Txt, PdfSmall, PdfBig>>,
      <<TxtBig, PdfBig>> }

\* the File objects of a drop, each with its identity (`===` compares it)
WithRefs(files, id) ==
    [i \in 1..Len(files) |-> Spread(files[i], [ref |-> id + i])]

\* validateFiles without the size check
validFile_typeOnly(file) == file.type \in allowedTypes

\* lines 33-48: a file passes both checks
validFile(file) ==
    IF ~(file.type \in allowedTypes) THEN FALSE
    ELSE IF file.size > maxSize THEN FALSE
    ELSE TRUE

\* lines 33-46: the notification validateFiles raises for one file
rejection(file) ==
    IF ~(file.type \in allowedTypes)
    THEN <<[level |-> "error", text |-> file.name \o " is not a PDF file"]>>
    ELSE IF file.size > maxSize
    THEN <<[level |-> "error", text |-> file.name \o " exceeds maximum size of 10MB"]>>
    ELSE <<>>

\* lines 27-52: validateFiles, the list `valid` it returns
validateFiles(files) == SelectSeq(files, validFile)

\* lines 31-49: the notifications of validateFiles, in the order of the files
RECURSIVE validationToasts(_)
validationToasts(files) ==
    IF files = <<>> THEN <<>>
    ELSE rejection(Head(files)) \o validationToasts(Tail(files))

\* an abort that raises nothing
abortToasts_silent(validFiles) == <<>>

\* lines 95-98: the notification of the abort
abortToasts(validFiles) ==
    IF Len(validFiles) = 0
    THEN <<[level |-> "error", text |-> "No valid files to upload"]>>
    ELSE <<>>

\* lines 56-58: uploadFile marks its item as uploading
markUploading(ups, file) ==
    [i \in 1..Len(ups) |->
        IF ups[i].file.ref = file.ref THEN Spread(ups[i], [status |-> "uploading"]) ELSE ups[i]]

\* lines 63-67: the onProgress callback of uploadFile
onProgress(ups, file, progress) ==
    [i \in 1..Len(ups) |->
        IF ups[i].file.ref = file.ref THEN Spread(ups[i], [progress |-> progress]) ELSE ups[i]]

\* lines 70-76: uploadFile after the mutation resolved
uploadThen(ups, file, data) ==
    [i \in 1..Len(ups) |->
        IF ups[i].file.ref = file.ref
        THEN Spread(ups[i], [status |-> "complete", progress |-> 100, docId |-> data.doc_id])
        ELSE ups[i]]

\* lines 77-84: the catch block of uploadFile
uploadCatch(ups, file, errorText) ==
    [i \in 1..Len(ups) |->
        IF ups[i].file.ref = file.ref
        THEN Spread(ups[i], [status |-> "error", error |-> errorText])
        ELSE ups[i]]

\* a clear that drops every finished item, failed ones included
clearCompleted_finished ==
    /\ \E i \in 1..Len(uploads) : uploads[i].status = "complete"
    /\ uploads' = SelectSeq(uploads, LAMBDA u : ~(u.status \in {"complete", "error"}))
    /\ lastOp' = "other"
    /\ UNCHANGED <<calls, hist, chatVars, studioVars, batches, docsVars>>

\* lines 134-136 and 197: clearCompleted, behind its button's `disabled`
clearCompleted ==
    /\ \E i \in 1..Len(uploads) : uploads[i].status = "complete"
    /\ uploads' = SelectSeq(uploads, LAMBDA u : u.status # "complete")
    /\ lastOp' = "other"
    /\ UNCHANGED <<calls, hist, chatVars, studioVars, batches, docsVars>>

\* client.ts line 146: Math.round((loaded * 100) / total)
percent(loaded, total) == (2 * loaded * 100 + total) \div (2 * total)

\* the request of uploadFile for `file`, awaited by the loop of handleFiles
\* with the files `rest` still to upload
UploadCall(file, rest) ==
    NewCall("uploadDocument", [file |-> file],
            [kind |-> "upload", file |-> file, rest |-> rest])

\* a loop that ends at the first failed upload
nextUploads_stopOnError(call) ==
    IF call.cont.rest = <<>> \/ call.pc = "rejected" THEN <<>> ELSE <<Head(call.cont.rest)>>

\* lines 109-111: the file the loop of handleFiles goes on with
nextUploads(call) ==
    IF call.cont.rest = <<>> THEN <<>> ELSE <<Head(call.cont.rest)>>

\* use-documents.ts lines 19-25: the notification of the mutation
uploadToast(call) ==
    IF call.pc = "resolved"
    THEN [level |-> "success",
          text |-> "Document \"" \o call.data.filename \o "\" uploaded successfully!"]
    ELSE [level |-> "error", text |-> "Upload failed: " \o call.err.message]

\* lines 70-84 and 109-111: the rest of uploadFile, run when its request has
\* settled (after the onSuccess / onError of the mutation, use-documents.ts
\* lines 19-25), and the next turn of the loop up to its await
uploadSettled(call) ==
    LET done == IF call.pc = "resolved"
                THEN uploadThen(uploads, call.cont.file, call.data)
                ELSE uploadCatch(uploads, call.cont.file, call.err.message)
        next == nextUploads(call)
    IN /\ uploads' = IF next = <<>> THEN done ELSE markUploading(done, next[1])
       /\ toasts' = Append(toasts, uploadToast(call))
       /\ documents' = IF call.pc = "resolved" THEN invalidateQueries(documents) ELSE documents
       /\ UNCHANGED <<messages, isLoading, currentDocId, input, nextId, studioVars, batches,
                      deleteDialog>>

\* lines 89-111: handleFiles up to the first await
handleFiles(files) ==
    /\ lastOp' = "handleFiles"
    /\ batches' = Append(batches, WithRefs(files, nextId))
    /\ nextId' = nextId + Len(files)
    /\ UNCHANGED <<hist, messages, isLoading, currentDocId, input, studioVars, docsVars>>
    /\ IF Len(files) = 0
       THEN UNCHANGED <<calls, toasts, uploads>>
       ELSE LET validFiles == validateFiles(WithRefs(files, nextId))
                newUploads == [i \in 1..Len(validFiles) |->
                                  [file |-> validFiles[i], progress |-> 0, status |-> "pending"]]
            IN /\ toasts' = toasts \o validationToasts(WithRefs(files, nextId))
                                   \o abortToasts(validFiles)
               /\ IF Len(validFiles) = 0
                  THEN UNCHANGED <<calls, uploads>>
                  ELSE /\ uploads' = markUploading(uploads \o newUploads, validFiles[1])
                       /\ calls' = Append(calls, UploadCall(validFiles[1], Tail(validFiles)))

----------------------------------------------------------------------------
(* Continuations *)

\* what the awaiting caller does when `call` has settled
Settled(call) ==
    CASE call.cont.kind = "chat" -> chatSettled(call)
      [] call.cont.kind = "studio" -> studioSettled(call)
      [] call.cont.kind = "upload" -> uploadSettled(call)
      [] call.cont.kind = "documents" -> documentsSettled(call)
      [] call.cont.kind = "delete" -> deleteSettled(call)
      [] OTHER -> UNCHANGED <<chatVars, studioVars, uploadVars, docsVars>>

\* the calls the continuation of `call` issues before it awaits again
Issued(call) ==
    Refetched(call)
        \o MutationRetried(call)
        \o (IF call.cont.kind = "upload" /\ nextUploads(call) # <<>>
            THEN <<UploadCall(Head(call.cont.rest), Tail(call.cont.rest))>>
            ELSE <<>>)

----------------------------------------------------------------------------
(* Steps of a facade call *)

\* an attempt of call c is answered with a 2xx carrying `payload`
AttemptSucceeds(c, payload) ==
    /\ calls[c].pc = "inflight"
    /\ LET call == onFulfilled(calls[c], payload) IN
         /\ calls' = Superseded([calls EXCEPT ![c] = call], call) \o Issued(call)
         /\ Settled(call)
    /\ lastOp' = "other"

\* a failed attempt handled with one retry counter kept for all calls
AttemptFails_sharedCounter(c, error) ==
    /\ calls[c].pc = "inflight"
    /\ LET shared == [calls[c] EXCEPT !.retry =
                         IF \A d \in DOMAIN calls : calls[d].retry = Undefined
                         THEN Undefined
                         ELSE CHOOSE r \in {calls[d].retry : d \in DOMAIN calls} :
                                  \A d \in DOMAIN calls : calls[d].retry <= r]
           call == onRejected(shared, error)
       IN
         /\ calls' = [calls EXCEPT ![c] = call]
                        \o (IF call.pc = "rejected" THEN Issued(call) ELSE <<>>)
         /\ IF call.pc = "rejected" THEN Settled(call)
            ELSE UNCHANGED <<chatVars, studioVars, uploadVars, docsVars>>
    /\ lastOp' = "other"

\* an attempt of call c fails with `error`: the interceptor retries or rejects
AttemptFails(c, error) ==
    /\ calls[c].pc = "inflight"
    /\ LET call == onRejected(calls[c], error) IN
         /\ calls' = [calls EXCEPT ![c] = call]
                        \o (IF call.pc = "rejected" THEN Issued(call) ELSE <<>>)
         /\ IF call.pc = "rejected" THEN Settled(call)
            ELSE UNCHANGED <<chatVars, studioVars, uploadVars, docsVars>>
    /\ lastOp' = "other"

\* the backoff timer of call c fires
RetryTimer(c) ==
    /\ calls[c].pc = "waiting"
    /\ calls' = [calls EXCEPT ![c] = reissue(calls[c])]
    /\ lastOp' = "other"
    /\ UNCHANGED <<chatVars, studioVars, uploadVars, docsVars>>

----------------------------------------------------------------------------
(* The application: the chat page over the facade *)

\* answers of the backend to the calls of the pages
AppErrors ==
    { ResponseError(503, NoDetail),
      ResponseError(404, [kind |-> "string", text |-> "Document not found"]) }

Init ==
    /\ calls = <<>>
    /\ hist = <<>>
    /\ messages = <<>>
    /\ isLoading = FALSE
    /\ currentDocId = Null
    /\ input = <<>>
    /\ toasts = <<>>
    /\ nextId = 0
    /\ lastOp = "other"
    /\ jobs = <<>>
    /\ selectedDocId = ""
    /\ processingAction = Null
    /\ uploads = <<>>
    /\ batches = <<>>
    /\ documents = NoQuery
    /\ deleteDialog = DialogClosed

\* a query attempt is answered with a 2xx
QueryAnswered ==
    \E c \in DOMAIN calls :
        \E payload \in Payloads(calls[c].op) :
            AttemptSucceeds(c, payload) /\ UNCHANGED hist

\* a query attempt fails
QueryFails ==
    \E c \in DOMAIN calls :
        \E error \in AppErrors :
            AttemptFails(c, error) /\ UNCHANGED hist

\* the backoff timer of a query fires
QueryRetried ==
    \E c \in DOMAIN calls : RetryTimer(c) /\ UNCHANGED hist

Next ==
    \/ handleSubmit
    \/ \E text \in Inputs : setInput(text)
    \/ clearMessages
    \/ QueryAnswered
    \/ QueryFails
    \/ QueryRetried

Spec == Init /\ [][Next]_vars

----------------------------------------------------------------------------
(* The studio page over the facade *)

\* failures of the studio endpoint: the document is gone (the transport does
\* not retry a 404; the retried failures of every operation are the subject of
\* SpecRetry)
StudioErrors ==
    { ResponseError(404, [kind |-> "string", text |-> "Document not found"]) }

\* a Generate button is clicked
GenerateClicked ==
    \E action \in StudioActions :
        /\ ~generateDisabled
        /\ Len(calls) < MaxCalls
        /\ handleGenerate(action)

\* handleGenerate runs while no document is selected (the buttons are
\* disabled then; the handler has its own guard)
GenerateUnselected ==
    \E action \in StudioActions :
        /\ selectedDocId = ""
        /\ Len(toasts) < MaxToasts
        /\ handleGenerate(action)

\* a document is chosen in the select
DocSelected == \E docId \in Docs : setSelectedDocId(docId)

\* a studio attempt is answered with a 2xx
StudioAnswered ==
    \E c \in DOMAIN calls :
        \E payload \in Payloads(calls[c].op) :
            AttemptSucceeds(c, payload) /\ UNCHANGED hist

\* a studio attempt fails
StudioFails ==
    \E c \in DOMAIN calls :
        \E error \in StudioErrors :
            AttemptFails(c, error) /\ UNCHANGED hist

NextStudio ==
    \/ GenerateClicked
    \/ GenerateUnselected
    \/ DocSelected
    \/ StudioAnswered
    \/ StudioFails

SpecStudio == Init /\ [][NextStudio]_vars

----------------------------------------------------------------------------
(* The upload page over the facade *)

\* a failure of the upload endpoint the transport does not retry
UploadErrors ==
    { ResponseError(400, [kind |-> "string", text |-> "File is not a valid PDF"]) }

\* byte counts at which the browser reports the progress of sending `file`
Loaded(file) == {file.size \div 3, file.size}

\* client.ts lines 143-148: a progress event of the current attempt of call c;
\* total is 0 when the length of the body is not computable
onUploadProgress(c, loaded, total) ==
    /\ calls[c].op = "uploadDocument"
    /\ calls[c].pc = "inflight"
    /\ loaded > calls[c].loaded
    /\ calls' = [calls EXCEPT ![c].loaded = loaded]
    /\ uploads' = IF total # 0
                  THEN onProgress(uploads, calls[c].request.file, percent(loaded, total))
                  ELSE uploads
    /\ lastOp' = "other"
    /\ UNCHANGED <<hist, chatVars, studioVars, batches, docsVars>>

\* files are dropped on the card or chosen in the file input
FilesDropped ==
    \E files \in Batches :
        /\ Len(batches) < MaxBatches
        /\ handleFiles(files)

\* the browser reports upload progress
UploadProgress ==
    \E c \in {c \in DOMAIN calls : calls[c].op = "uploadDocument"} :
        \E loaded \in Loaded(calls[c].request.file) :
            \E total \in {calls[c].request.file.size, 0} :
                onUploadProgress(c, loaded, total)

\* an upload attempt is answered with a 2xx
UploadAnswered ==
    \E c \in DOMAIN calls :
        \E payload \in Payloads(calls[c].op) :
            AttemptSucceeds(c, payload) /\ UNCHANGED hist

\* an upload attempt is answered with a 4xx
UploadFails ==
    \E c \in DOMAIN calls :
        \E error \in UploadErrors :
            AttemptFails(c, error) /\ UNCHANGED hist

\* an upload attempt gets no response
UploadInterrupted ==
    \E c \in DOMAIN calls : AttemptFails(c, NetworkError) /\ UNCHANGED hist

\* the backoff timer of an upload fires: the same request is sent again
UploadRetried ==
    \E c \in DOMAIN calls : RetryTimer(c) /\ UNCHANGED hist

NextUpload ==
    \/ FilesDropped
    \/ clearCompleted
    \/ UploadProgress
    \/ UploadAnswered
    \/ UploadFails

SpecUpload == Init /\ [][NextUpload]_vars

\* the upload page on a connection that drops
NextUploadRetry ==
    \/ NextUpload
    \/ UploadInterrupted
    \/ UploadRetried

SpecUploadRetry == Init /\ [][NextUploadRetry]_vars

\* one more file is dropped while a request of the batch before is in flight
DroppedAgain ==
    /\ Len(batches) = MaxBatches
    /\ \E c \in DOMAIN calls :
           calls[c].op = "uploadDocument" /\ calls[c].pc = "inflight"
    /\ handleFiles(<<PdfSmall>>)

\* the upload page with a user who does not wait for a batch to end
NextUploadTwice ==
    \/ NextUpload
    \/ DroppedAgain

SpecUploadTwice == Init /\ [][NextUploadTwice]_vars

----------------------------------------------------------------------------
(* The documents page over the query layer and the facade; a file is      *)
(* uploaded from the upload page while the documents page is not open     *)

\* the failure of the backend: a 404, which neither layer retries
DocsErrors ==
    { ResponseError(404, [kind |-> "string", text |-> "Document not found"]) }

\* the user opens the documents page, once the uploads they started are over
PageOpened ==
    /\ \A c \in DOMAIN calls :
           calls[c].op = "uploadDocument" => calls[c].pc \in {"resolved", "rejected"}
    /\ (documents.data = NoData \/ documents.isInvalidated) =>
           documents.fetchCount < MaxFetches
    /\ DocumentsOpened

\* the Delete button of one of the cards is clicked
DeleteClicked == \E docId \in Docs : handleDeleteClick(docId)

\* a file is uploaded from the upload page
FileUploaded ==
    /\ documents.observers = 0
    /\ Len(batches) < MaxBatches
    /\ handleFiles(<<PdfSmall>>)

\* an attempt of a request is answered with a 2xx
DocsAnswered ==
    \E c \in DOMAIN calls :
        \E payload \in Payloads(calls[c].op) :
            AttemptSucceeds(c, payload) /\ UNCHANGED hist

\* an attempt of a request fails
DocsFails ==
    \E c \in DOMAIN calls :
        \E error \in DocsErrors :
            AttemptFails(c, error) /\ UNCHANGED hist

\* an attempt of a deletion is answered with a 503, which the transport retries
DeleteUnavailable ==
    \E c \in {c \in DOMAIN calls : calls[c].op = "deleteDocument"} :
        AttemptFails(c, ResponseError(503, NoDetail)) /\ UNCHANGED hist

\* the backoff timer of a deletion fires
DeleteRetried ==
    \E c \in {c \in DOMAIN calls : calls[c].op = "deleteDocument"} :
        RetryTimer(c) /\ UNCHANGED hist

NextDocs ==
    \/ PageOpened
    \/ DocumentsLeft
    \/ DeleteClicked
    \/ cancelDelete
    \/ handleDeleteConfirm
    \/ FileUploaded
    \/ DocsAnswered
    \/ DocsFails
    \/ DeleteUnavailable
    \/ DeleteRetried

SpecDocs == Init /\ [][NextDocs]_vars

\* the documents page against a backend that fails in every way, with a 404
\* or a 429, with a 503, or without a response, and that lets no deletion
\* through
FetchErrors ==
    { ResponseError(404, [kind |-> "string", text |-> "Document not found"]),
      ResponseError(429, NoDetail),
      ResponseError(503, NoDetail),
      NetworkError }

\* an attempt of a request of the fetch is answered with a 2xx
FetchAnswered ==
    \E c \in {c \in DOMAIN calls : calls[c].op = "getDocuments"} :
        \E payload \in Payloads(calls[c].op) :
            AttemptSucceeds(c, payload) /\ UNCHANGED hist

\* an attempt of a request fails
FetchFails ==
    \E c \in DOMAIN calls :
        \E error \in FetchErrors :
            AttemptFails(c, error) /\ UNCHANGED hist

\* the backoff timer of the transport fires
FetchRetried ==
    \E c \in DOMAIN calls : RetryTimer(c) /\ UNCHANGED hist

NextQuery ==
    \/ PageOpened
    \/ DocumentsLeft
    \/ DeleteClicked
    \/ handleDeleteConfirm
    \/ FetchAnswered
    \/ FetchFails
    \/ FetchRetried
    \/ queryRetryTimer

SpecQuery == Init /\ [][NextQuery]_vars

----------------------------------------------------------------------------
(* The three pages side by side: the stores and the notifications are     *)
(* shared. The user types one text, works on one document with one action  *)
(* and uploads one file at a time; a failing request is refused with a 404 *)

\* the text is typed into the chat box
Typed == setInput(<<"h", "i">>)

\* the first document is chosen in the studio
FirstDocSelected == setSelectedDocId("doc-1")

\* the Generate button of the audio card is clicked
AudioClicked ==
    /\ ~generateDisabled
    /\ Len(calls) < MaxCalls
    /\ handleGenerate(GeneratePrefix \o <<"a", "u", "d", "i", "o">>)

\* one PDF is dropped on the upload card
PdfDropped ==
    /\ Len(calls) < MaxCalls
    /\ Len(batches) < MaxBatches
    /\ handleFiles(<<PdfSmall>>)

\* any pending attempt is answered with a 2xx
Answered ==
    \E c \in DOMAIN calls :
        \E payload \in Payloads(calls[c].op) :
            AttemptSucceeds(c, payload) /\ UNCHANGED hist

\* any pending attempt is answered with a 404
Refused ==
    \E c \in DOMAIN calls :
        \E error \in StudioErrors :
            AttemptFails(c, error) /\ UNCHANGED hist

NextApp ==
    \/ handleSubmit
    \/ Typed
    \/ AudioClicked
    \/ FirstDocSelected
    \/ PdfDropped
    \/ clearCompleted
    \/ UploadProgress
    \/ Answered
    \/ Refused

SpecApp == Init /\ [][NextApp]_vars

----------------------------------------------------------------------------
(* One facade call against every answer of the backend *)

InitRetry ==
    /\ \E op \in FacadeOps : calls = <<NewCall(op, [path |-> op], NoCont)>>
    /\ hist = <<>>
    /\ messages = <<>>
    /\ isLoading = FALSE
    /\ currentDocId = Null
    /\ input = <<>>
    /\ toasts = <<>>
    /\ nextId = 0
    /\ lastOp = "other"
    /\ jobs = <<>>
    /\ selectedDocId = ""
    /\ processingAction = Null
    /\ uploads = <<>>
    /\ batches = <<>>
    /\ documents = NoQuery
    /\ deleteDialog = DialogClosed

\* the answers are recorded in hist; status 0 stands for an attempt without a response
ObserveSuccess ==
    \E payload \in Payloads(calls[1].op) :
        /\ AttemptSucceeds(1, payload)
        /\ hist' = Append(hist, [status |-> 200, data |-> payload])

ObserveFailure ==
    \E error \in Errors :
        /\ AttemptFails(1, error)
        /\ hist' = Append(hist, [status |-> error.status, data |-> NoData])

ObserveTimer == RetryTimer(1) /\ UNCHANGED hist

NextRetry == ObserveSuccess \/ ObserveFailure \/ ObserveTimer

SpecRetry == InitRetry /\ [][NextRetry]_vars

\* every attempt is answered and every timer fires
FairRetry == SpecRetry /\ WF_vars(NextRetry)

----------------------------------------------------------------------------
(* Properties of the retrying transport, checked under SpecRetry / FairRetry *)

\* a failure the transport is to retry: no response, 5xx or 429
Qualifying(e) ==
    \/ ~e.response
    \/ e.status \in 500..599
    \/ e.status = 429

\* a 4xx status other than 429
OtherClientError(status) == status \in 400..499 /\ status # 429

\* the call has given up after qualifying failures only
Exhausted(call) == call.pc = "rejected" /\ Qualifying(call.raised)

\* C1: a failed attempt is retried, while budget remains, if and only if it
\* got no response, a 5xx or a 429; any other 4xx ends the call at once, with
\* no retry after it, whatever the facade operation.
C1_RetryPredicate ==
    /\ \A c \in DOMAIN calls :
         /\ calls[c].pc = "waiting" => Qualifying(calls[c].raised)
         /\ calls[c].pc = "rejected" =>
                \/ ~Qualifying(calls[c].raised)
                \/ calls[c].retry = 3
    /\ \A i \in 1..Len(hist) :
         OtherClientError(hist[i].status) =>
             /\ i = Len(hist)
             /\ calls[1].pc = "rejected"
             /\ calls[1].attempts = i
             /\ Len(calls[1].waits) = i - 1

C1_Witness ==
    /\ Len(hist) = 2
    /\ hist[1].status = 429
    /\ hist[2].status = 404
    /\ calls[1].pc = "rejected"
    /\ calls[1].attempts = 2

\* C2: one facade call sends at most 4 HTTP attempts; when every attempt fails
\* with a qualifying failure the call rejects after exactly the 4th; and when
\* every attempt is answered the call settles.
C2_AttemptCap ==
    /\ [](\A c \in DOMAIN calls :
            /\ calls[c].attempts <= 4
            /\ calls[c].retry <= 3
            /\ Exhausted(calls[c]) => calls[c].attempts = 4)
    /\ <>(\A c \in DOMAIN calls : calls[c].pc \in {"resolved", "rejected"})

C2_Witness ==
    /\ Exhausted(calls[1])
    /\ calls[1].attempts = 4
    /\ Len(hist) = 4
    /\ \A i \in 1..4 : hist[i].status = 503

\* C3: the wait before retry n (0-indexed) is base_delay * 2^n: 1000, 2000, 4000
\* for a call that exhausts its retries, and each wait starts after the failed
\* attempt and ends before the attempt it belongs to is sent.
C3_BackoffSchedule ==
    \A c \in DOMAIN calls :
        /\ \A n \in 0..(Len(calls[c].waits) - 1) :
               calls[c].waits[n + 1] = RETRY_DELAY * (2 ^ n)
        /\ Exhausted(calls[c]) => calls[c].waits = <<1000, 2000, 4000>>
        /\ calls[c].pc = "waiting" => calls[c].attempts = Len(calls[c].waits)
        /\ calls[c].pc # "waiting" => calls[c].attempts = Len(calls[c].waits) + 1

C3_Witness ==
    /\ Exhausted(calls[1])
    /\ calls[1].waits = <<1000, 2000, 4000>>

ServerError(status) == status \in {500, 503}

\* C5: when getDocuments is answered 503/500 on its first two attempts and
\* 200 on the third, no error is surfaced after the first or the second
\* failure (the call is still pending, one backoff wait per failure), and the
\* call resolves with the payload of the 200 after exactly 3 attempts and two
\* backoff waits.
C5_Recovery ==
    calls[1].op = "getDocuments" =>
        /\ \A k \in 1..2 :
               (Len(hist) = k /\ \A i \in 1..k : ServerError(hist[i].status)) =>
                   /\ calls[1].pc \in {"waiting", "inflight"}
                   /\ calls[1].err = NoError
                   /\ Len(calls[1].waits) = k
                   /\ toasts = <<>>
        /\ (Len(hist) >= 3 /\ ServerError(hist[1].status)
               /\ ServerError(hist[2].status) /\ hist[3].status = 200) =>
                   /\ Len(hist) = 3
                   /\ calls[1].pc = "resolved"
                   /\ calls[1].data = hist[3].data
                   /\ calls[1].attempts = 3
                   /\ calls[1].waits = <<1000, 2000>>
                   /\ calls[1].err = NoError
                   /\ toasts = <<>>

C5_Witness ==
    /\ calls[1].op = "getDocuments"
    /\ Len(hist) = 3
    /\ hist[1].status = 503
    /\ hist[2].status = 503
    /\ hist[3] = [status |-> 200, data |-> [documents |-> <<"doc-1">>]]
    /\ calls[1].pc = "resolved"
    /\ calls[1].data = [documents |-> <<"doc-1">>]

\* C6: the attempts of one call are sequential: at most one is in flight,
\* none while the call waits or has settled, every attempt sent has been
\* answered or is the one in flight, and an attempt is in flight only after
\* every earlier attempt has failed and its wait is over.
C6_Sequential ==
    \A c \in DOMAIN calls :
        /\ calls[c].outstanding <= 1
        /\ calls[c].outstanding = 1 <=> calls[c].pc = "inflight"
        /\ calls[c].pc = "inflight" => Len(calls[c].waits) = calls[c].attempts - 1
        /\ c = 1 => calls[c].attempts = Len(hist) + calls[c].outstanding

C6_Witness ==
    /\ calls[1].pc = "inflight"
    /\ calls[1].attempts = 3
    /\ calls[1].outstanding = 1
    /\ Len(hist) = 2

\* msg fields of a list of validation errors, joined with ", " in list order
RECURSIVE MsgList(_)
MsgList(items) ==
    IF Len(items) = 0 THEN ""
    ELSE IF Len(items) = 1 THEN items[1].msg
    ELSE MsgList(SubSeq(items, 1, Len(items) - 1)) \o ", " \o items[Len(items)].msg

\* C7 as stated: detail when it is a string; else the joined msg fields when
\* it is a list; else the connection-failure message when there was no
\* response; else the transport's error text.
C7_MessageAsStated ==
    \A c \in DOMAIN calls :
        calls[c].pc = "rejected" =>
            LET e == calls[c].raised IN
            calls[c].err.message =
                IF e.response /\ e.detail.kind = "string" THEN e.detail.text
                ELSE IF e.response /\ e.detail.kind = "array" THEN MsgList(e.detail.items)
                ELSE IF ~e.response THEN "Network error: Unable to reach server"
                ELSE e.message

\* C7 amended: for a response, detail when it is a string, the joined msg
\* fields when it is a list, and the fixed text "An error occurred" otherwise;
\* without a response, the connection-failure message when the request was
\* sent and the transport's error text when it was not.
C7_FinalMessage ==
    \A c \in DOMAIN calls :
        calls[c].pc = "rejected" =>
            LET e == calls[c].raised
                m == calls[c].err.message
            IN /\ (e.response /\ e.detail.kind = "string") => m = e.detail.text
               /\ (e.response /\ e.detail.kind = "array") => m = MsgList(e.detail.items)
               /\ (e.response /\ e.detail.kind = "none") => m = "An error occurred"
               /\ (~e.response /\ e.request) => m = "Network error: Unable to reach server"
               /\ (~e.response /\ ~e.request) => m = e.message

C7_Witness ==
    /\ calls[1].pc = "rejected"
    /\ calls[1].raised.status = 422
    /\ calls[1].raised.detail.kind = "array"
    /\ calls[1].err.message = "value is not a valid integer, field required"

----------------------------------------------------------------------------
(* Properties of the chat page, checked under Spec *)

\* the text has a character that is not whitespace
NonBlank(text) == \E i \in 1..Len(text) : text[i] \notin Whitespace

\* the text from its first to its last character that is not whitespace
Stripped(text) ==
    LET solid == {i \in 1..Len(text) : text[i] \notin Whitespace}
        first == CHOOSE i \in solid : \A j \in solid : i <= j
        last == CHOOSE i \in solid : \A j \in solid : j <= i
    IN SubSeq(text, first, last)

\* C8: a submission of text that is not blank appends exactly two messages,
\* the user message with the trimmed text and then the assistant message with
\* empty content and the loading flag set, and the query request is issued
\* with both already in the store.
C8_SubmitAppendsPair ==
    [][(lastOp' = "handleSubmit" /\ NonBlank(input)) =>
          LET n == Len(messages)
              q == calls'[Len(calls')]
          IN /\ Len(messages') = n + 2
             /\ SubSeq(messages', 1, n) = messages
             /\ messages'[n + 1].role = "user"
             /\ messages'[n + 1].content = Str(Stripped(input))
             /\ messages'[n + 2].role = "assistant"
             /\ messages'[n + 2].content = ""
             /\ messages'[n + 2].isLoading = TRUE
             /\ messages'[n + 1].id # messages'[n + 2].id
             /\ Len(calls') = Len(calls) + 1
             /\ SubSeq(calls', 1, Len(calls)) = calls
             /\ q.op = "query"
             /\ q.pc = "inflight"
             /\ q.attempts = 1
             /\ q.request.query = Str(Stripped(input))
             /\ q.cont.messagesAtIssue = n + 2
             /\ q.cont.assistantMsgId = messages'[n + 2].id
      ]_vars

C8_Witness ==
    /\ lastOp = "handleSubmit"
    /\ Len(messages) = 4
    /\ messages[3].role = "user"
    /\ messages[3].content = "hi"
    /\ messages[4].role = "assistant"
    /\ messages[4].isLoading = TRUE
    /\ Len(calls) = 2
    /\ calls[2].pc = "inflight"

\* C9: a submission of empty or whitespace-only text appends no message,
\* issues no query, raises no notification and leaves the chat store as it was.
C9_EmptySubmitNoOp ==
    [][(lastOp' = "handleSubmit" /\ ~NonBlank(input)) =>
          /\ messages' = messages
          /\ isLoading' = isLoading
          /\ currentDocId' = currentDocId
          /\ calls' = calls
          /\ toasts' = toasts
          /\ nextId' = nextId
      ]_vars

C9_Witness ==
    /\ lastOp = "handleSubmit"
    /\ input = <<" ">>
    /\ messages = <<>>
    /\ calls = <<>>
    /\ toasts = <<>>
    /\ isLoading = FALSE

\* C10: when the query of an exchange resolves, the assistant placeholder of
\* the exchange, if still in the list, gets the answer as content, the
\* citations as sources and its loading flag cleared, and keeps its id, role
\* and position; the list keeps its length.
C10_SuccessInPlace ==
    [][\A c \in DOMAIN calls :
          (calls[c].cont.kind = "chat" /\ calls[c].pc = "inflight"
              /\ calls'[c].pc = "resolved") =>
                /\ Len(messages') = Len(messages)
                /\ \A i \in 1..Len(messages) :
                       messages[i].id = calls[c].cont.assistantMsgId =>
                           /\ messages'[i].id = messages[i].id
                           /\ messages'[i].role = "assistant"
                           /\ messages'[i].content = calls'[c].data.answer
                           /\ messages'[i].sources = calls'[c].data.sources
                           /\ messages'[i].isLoading = FALSE
      ]_vars

C10_Witness ==
    /\ Len(messages) = 4
    /\ calls[1].pc = "resolved"
    /\ calls[1].cont.assistantMsgId = messages[2].id
    /\ messages[2].role = "assistant"
    /\ messages[2].content = "Vacations are..."
    /\ messages[2].sources = <<>>
    /\ messages[2].isLoading = FALSE
    /\ messages[4].isLoading = TRUE


\* C11: when the query of an exchange rejects, the list keeps its length and
\* order, the assistant placeholder of the exchange, if still in the list,
\* gets "Error: " followed by the final error message as content and its
\* loading flag cleared, the user message before it stays as it was, and
\* exactly one error notification carrying that message is raised.
C11_FailureInPlace ==
    [][\A c \in DOMAIN calls :
          (calls[c].cont.kind = "chat" /\ calls[c].pc = "inflight"
              /\ calls'[c].pc = "rejected") =>
                /\ Len(messages') = Len(messages)
                /\ \A i \in 1..Len(messages) :
                       /\ messages'[i].id = messages[i].id
                       /\ messages'[i].role = messages[i].role
                       /\ messages[i].role = "user" => messages'[i] = messages[i]
                       /\ messages[i].id = calls[c].cont.assistantMsgId =>
                           /\ messages'[i].content = "Error: " \o calls'[c].err.message
                           /\ messages'[i].isLoading = FALSE
                /\ toasts' = Append(toasts,
                       [level |-> "error", text |-> calls'[c].err.message])
      ]_vars

C11_Witness ==
    /\ Len(messages) = 2
    /\ calls[1].pc = "rejected"
    /\ calls[1].attempts = 4
    /\ messages[1].role = "user"
    /\ messages[1].content = "hi"
    /\ messages[2].id = calls[1].cont.assistantMsgId
    /\ messages[2].content = "Error: An error occurred"
    /\ messages[2].isLoading = FALSE
    /\ toasts = <<[level |-> "error", text |-> "An error occurred"]>>


\* the step settles chat call c: its query resolves or rejects
ChatSettles(c) ==
    /\ calls[c].cont.kind = "chat"
    /\ calls[c].pc = "inflight"
    /\ calls'[c].pc \in {"resolved", "rejected"}

\* C12: message ids are unique, and with any number of submissions in flight
\* and answered in any order, the step that settles a query changes no
\* message but the assistant placeholder its own submission created: every
\* message with another id, user or assistant, stays as it was.
C12_OwnPlaceholderOnly ==
    /\ [](\A i, j \in 1..Len(messages) : messages[i].id = messages[j].id => i = j)
    /\ [][\A c \in DOMAIN calls :
            ChatSettles(c) =>
                /\ Len(messages') = Len(messages)
                /\ \A i \in 1..Len(messages) :
                       IF messages[i].id = calls[c].cont.assistantMsgId
                       THEN /\ messages[i].role = "assistant"
                            /\ i = calls[c].cont.messagesAtIssue
                            /\ messages'[i].isLoading = FALSE
                       ELSE messages'[i] = messages[i]
        ]_vars

\* the second submission is answered while the first is still in flight
C12_Witness ==
    /\ Len(calls) = 2
    /\ calls[1].pc = "inflight"
    /\ calls[2].pc = "resolved"
    /\ Len(messages) = 4
    /\ messages[2].id = calls[1].cont.assistantMsgId
    /\ messages[2].isLoading = TRUE
    /\ messages[2].content = ""
    /\ messages[4].id = calls[2].cont.assistantMsgId
    /\ messages[4].isLoading = FALSE
    /\ messages[4].content = "Vacations are..."


\* C28: when the list was cleared while a query was in flight, so that the
\* placeholder of the query is no longer in it, the step that settles the
\* query, resolved or rejected, leaves the list of messages exactly as it
\* was: nothing is added and no message is changed.
C28_LateResponseIgnored ==
    [][\A c \in DOMAIN calls :
          (/\ ChatSettles(c)
           /\ \A i \in 1..Len(messages) :
                  messages[i].id # calls[c].cont.assistantMsgId)
              => messages' = messages
      ]_vars

\* the list was cleared with the first query in flight, a second exchange was
\* started, and then the first query was answered: the flag of the store is
\* down although the second query is in flight, and the list holds the second
\* exchange only, its placeholder still loading
C28_Witness ==
    /\ Len(calls) = 2
    /\ calls[1].pc = "resolved"
    /\ calls[2].pc = "inflight"
    /\ isLoading = FALSE
    /\ Len(messages) = 2
    /\ messages[1].id = 3
    /\ messages[2].id = calls[2].cont.assistantMsgId
    /\ messages[2].isLoading = TRUE
    /\ messages[2].content = ""


\* C30: each facade call counts its own retries, whatever the calls running
\* beside it do: its counter is the number of backoff waits it has started
\* itself, the i-th of them lasts RETRY_DELAY * 2^(i-1), it has sent one
\* attempt more than it has finished waits, and it is rejected with a
\* retryable error only after its own three retries.
C30_OwnRetryBudget ==
    \A c \in DOMAIN calls :
        LET call == calls[c] IN
        /\ Len(call.waits) = initRetry(call.retry)
        /\ Len(call.waits) <= MAX_RETRIES
        /\ \A i \in 1..Len(call.waits) :
               call.waits[i] = RETRY_DELAY * Pow2(i - 1)
        /\ call.attempts =
               IF call.pc = "waiting" THEN Len(call.waits) ELSE Len(call.waits) + 1
        /\ (call.pc = "rejected" /\ shouldRetry(call.raised)) =>
               /\ call.retry = MAX_RETRIES
               /\ call.attempts = MAX_RETRIES + 1

\* two queries in flight together have each used their three retries: the
\* first was rejected after the second was submitted (the flag of the store
\* is down), the second is on its fourth attempt
C30_Witness ==
    /\ Len(calls) = 2
    /\ calls[1].pc = "rejected"
    /\ calls[1].raised.status = 503
    /\ calls[1].attempts = 4
    /\ calls[1].waits = <<1000, 2000, 4000>>
    /\ isLoading = FALSE
    /\ calls[2].pc = "inflight"
    /\ calls[2].retry = 3
    /\ calls[2].attempts = 4
    /\ calls[2].waits = <<1000, 2000, 4000>>


\* C26: the loading flag of the chat store is set whenever an assistant
\* message of the list still has its own loading flag set, submissions by the
\* Enter key while an earlier query is in flight included.
C26_LoadingCoversPlaceholders ==
    (\E i \in 1..Len(messages) :
        messages[i].role = "assistant" /\ messages[i].isLoading)
            => isLoading


----------------------------------------------------------------------------
(* Properties of the studio page, checked under SpecStudio *)

\* the job type the four actions stand for
ActionType(name) ==
    CASE name = "generate_audio" -> "audio"
      [] name = "generate_video" -> "video"
      [] name = "generate_briefing" -> "briefing"
      [] name = "generate_study_guide" -> "study_guide"
      [] OTHER -> "none"

\* C18: a run of handleGenerate with a document selected appends exactly one
\* job, in status processing, bound to the selected document and typed audio,
\* video, briefing or study_guide after the action, and the request is issued
\* with the job already in the store; with no document selected it adds no
\* job and issues no request.
C18_OptimisticJob ==
    [][lastOp' = "handleGenerate" =>
          IF selectedDocId = ""
          THEN jobs' = jobs /\ calls' = calls /\ processingAction' = processingAction
          ELSE LET n == Len(jobs)
                   q == calls'[Len(calls')]
               IN /\ Len(jobs') = n + 1
                  /\ SubSeq(jobs', 1, n) = jobs
                  /\ jobs'[n + 1].status = "processing"
                  /\ jobs'[n + 1].doc_id = selectedDocId
                  /\ jobs'[n + 1].type = ActionType(q.request.action)
                  /\ jobs'[n + 1].type # "none"
                  /\ \A i \in 1..n : jobs[i].id # jobs'[n + 1].id
                  /\ Len(calls') = Len(calls) + 1
                  /\ SubSeq(calls', 1, Len(calls)) = calls
                  /\ q.op = "studio"
                  /\ q.pc = "inflight"
                  /\ q.attempts = 1
                  /\ q.request.doc_id = selectedDocId
                  /\ q.cont.jobId = jobs'[n + 1].id
      ]_vars

\* a trigger without a document was refused, then a study guide was requested
C18_Witness ==
    /\ lastOp = "handleGenerate"
    /\ toasts = <<[level |-> "error", text |-> "Please select a document first"]>>
    /\ selectedDocId = "doc-2"
    /\ Len(jobs) = 1
    /\ jobs[1].type = "study_guide"
    /\ jobs[1].status = "processing"
    /\ jobs[1].doc_id = "doc-2"
    /\ Len(calls) = 1
    /\ calls[1].pc = "inflight"
    /\ calls[1].request.action = "generate_study_guide"


\* the studio request of call c has resolved or rejected
StudioEnded(c) ==
    calls[c].cont.kind = "studio" /\ calls[c].pc \in {"resolved", "rejected"}

\* the job created for call c
JobOf(c) ==
    LET i == CHOOSE i \in 1..Len(jobs) : jobs[i].id = calls[c].cont.jobId IN jobs[i]

\* C19: once the request of a generate action has resolved or rejected, its
\* job is complete, with the result of the response and a completion
\* timestamp, when the response status is success, and in error with a
\* message otherwise; it is never left in processing.
C19_JobTerminal ==
    \A c \in DOMAIN calls :
        StudioEnded(c) =>
            IF calls[c].pc = "resolved" /\ calls[c].data.status = "success"
            THEN /\ JobOf(c).status = "complete"
                 /\ JobOf(c).result = calls[c].data.result
                 /\ "completed_at" \in DOMAIN JobOf(c)
            ELSE /\ JobOf(c).status = "error"
                 /\ "error" \in DOMAIN JobOf(c)
                 /\ JobOf(c).error # ""


\* the studio request of call c is unresolved: sent, or waiting to be re-sent
StudioPending(c) ==
    calls[c].cont.kind = "studio" /\ calls[c].pc \in {"inflight", "waiting"}

\* C20: at most one studio request is unresolved at any time; while one is,
\* processingAction is set, which disables every Generate button; once none
\* is, processingAction is null again, so the buttons are enabled whenever a
\* document is selected; and no step removes or reorders a job of the store.
C20_OneGeneration ==
    /\ [](/\ Cardinality({c \in DOMAIN calls : StudioPending(c)}) <= 1
          /\ (\E c \in DOMAIN calls : StudioPending(c)) <=> processingAction # Null)
    /\ [][/\ Len(jobs') >= Len(jobs)
          /\ \A i \in 1..Len(jobs) : jobs'[i].id = jobs[i].id
       ]_vars

\* a second generation is running with the first job still in the store
C20_Witness ==
    /\ Len(jobs) = 2
    /\ jobs[1].status = "complete"
    /\ jobs[2].status = "processing"
    /\ calls[1].pc = "resolved"
    /\ calls[2].pc = "inflight"
    /\ processingAction = "generate_video"
    /\ selectedDocId # ""


----------------------------------------------------------------------------
(* Properties of the upload page, checked under SpecUpload / SpecUploadRetry *)

\* C14: while an upload item stays in status uploading, no step lowers its
\* progress, whether the progress callback comes from the first attempt of
\* the request or from an attempt the transport re-sent.
C14_ProgressMonotonic ==
    [][\A i \in 1..Len(uploads) : \A j \in 1..Len(uploads') :
          (/\ uploads'[j].file.ref = uploads[i].file.ref
           /\ uploads[i].status = "uploading"
           /\ uploads'[j].status = "uploading")
              => uploads'[j].progress >= uploads[i].progress
      ]_vars


\* a file passes validation: declared as PDF and not larger than 10 MiB
Acceptable(file) == file.type = "application/pdf" /\ file.size <= 10485760

\* the status of the upload item of the file with identity ref ("none" when
\* no item holds the file: it was never added, or it was complete and cleared)
StatusOf(ref) ==
    IF \E i \in 1..Len(uploads) : uploads[i].file.ref = ref
    THEN uploads[CHOOSE i \in 1..Len(uploads) : uploads[i].file.ref = ref].status
    ELSE "none"

\* the valid files of a file list, in order
ValidOf(files) == SelectSeq(files, Acceptable)

\* requests issued so far for the file with identity ref
CallsFor(ref) ==
    {c \in DOMAIN calls : calls[c].op = "uploadDocument" /\ calls[c].request.file.ref = ref}

\* C15: in a batch, the first valid file starts at once, and a later valid
\* file is pending, with no request issued for it, exactly as long as the
\* valid file before it has not reached complete or error (a complete item
\* may have been cleared since); so a file that ends in error is followed by
\* the next one like a file that completes.
C15_SequentialBatch ==
    \A b \in 1..Len(batches) :
        LET valid == ValidOf(batches[b]) IN
        \A k \in 1..Len(valid) :
            /\ StatusOf(valid[k].ref) \in {"pending", "uploading", "complete", "error", "none"}
            /\ StatusOf(valid[k].ref) = "pending" <=>
                   (k > 1 /\ StatusOf(valid[k - 1].ref) \notin {"complete", "error", "none"})
            /\ StatusOf(valid[k].ref) = "pending" <=> CallsFor(valid[k].ref) = {}
            /\ Cardinality(CallsFor(valid[k].ref)) <= 1
            /\ \A c \in CallsFor(valid[k].ref) :
                   /\ calls[c].pc \in {"inflight", "waiting"} <=>
                          StatusOf(valid[k].ref) = "uploading"
                   /\ calls[c].pc = "resolved" <=> StatusOf(valid[k].ref) \in {"complete", "none"}
                   /\ calls[c].pc = "rejected" <=> StatusOf(valid[k].ref) = "error"

\* the first file of a batch failed and the second is being uploaded
C15_Witness ==
    /\ Len(batches) = 1
    /\ Len(uploads) = 2
    /\ uploads[1].file.name = "a.pdf"
    /\ uploads[1].status = "error"
    /\ uploads[1].error = "File is not a valid PDF"
    /\ uploads[2].file.name = "b.pdf"
    /\ uploads[2].status = "uploading"
    /\ Len(calls) = 2
    /\ calls[1].pc = "rejected"
    /\ calls[2].pc = "inflight"


\* the step is a call of handleFiles; its file list is the last of batches'
HandleFilesStep == lastOp' = "handleFiles" /\ Len(batches') = Len(batches) + 1

\* the notifications the step raises, oldest first
NewToasts == SubSeq(toasts', Len(toasts) + 1, Len(toasts'))

\* the notifications of a rejected file
RejectionTexts(file) ==
    {file.name \o " is not a PDF file", file.name \o " exceeds maximum size of 10MB"}

\* C16: a file that is not declared as PDF or is larger than the maximum
\* never becomes an upload item and never is the body of an upload request;
\* the call of handleFiles that receives it raises exactly one notification
\* naming it; and the valid files of the same call are appended as items, in
\* order, the first of them being uploaded at once.
C16_InvalidExcluded ==
    /\ [](/\ \A i \in 1..Len(uploads) : Acceptable(uploads[i].file)
          /\ \A c \in DOMAIN calls :
                 calls[c].op = "uploadDocument" => Acceptable(calls[c].request.file)
          /\ \A b \in 1..Len(batches) : \A k \in 1..Len(batches[b]) :
                 ~Acceptable(batches[b][k]) =>
                     StatusOf(batches[b][k].ref) = "none" /\ CallsFor(batches[b][k].ref) = {})
    /\ [][HandleFilesStep =>
            LET files == batches'[Len(batches')]
                valid == ValidOf(files)
                n == Len(uploads)
            IN /\ \A k \in 1..Len(files) :
                      Cardinality({t \in 1..Len(NewToasts) :
                                      NewToasts[t].text \in RejectionTexts(files[k])})
                          = IF Acceptable(files[k]) THEN 0 ELSE 1
               /\ Len(uploads') = n + Len(valid)
               /\ SubSeq(uploads', 1, n) = uploads
               /\ \A k \in 1..Len(valid) :
                      /\ uploads'[n + k].file = valid[k]
                      /\ uploads'[n + k].progress = 0
                      /\ uploads'[n + k].status = IF k = 1 THEN "uploading" ELSE "pending"
               /\ IF valid = <<>> THEN calls' = calls
                  ELSE /\ Len(calls') = Len(calls) + 1
                       /\ calls'[Len(calls')].request.file = valid[1]
                       /\ calls'[Len(calls')].pc = "inflight"
        ]_vars

\* a text file, a PDF and an oversized PDF were dropped together: two
\* notifications, and the PDF alone was uploaded
C16_Witness ==
    /\ Len(batches) = 1
    /\ Len(batches[1]) = 3
    /\ Len(uploads) = 1
    /\ uploads[1].file.name = "a.pdf"
    /\ uploads[1].status = "complete"
    /\ uploads[1].docId = "doc-1"
    /\ Len(calls) = 1
    /\ Len(toasts) = 3
    /\ toasts[1].text = "notes.txt is not a PDF file"
    /\ toasts[2].text = "big.pdf exceeds maximum size of 10MB"
    /\ toasts[3].level = "success"

\* C17 as stated: a call of handleFiles in which every file fails validation
\* adds no item, issues no request and raises a single notification.
C17_SingleNotification ==
    [][(HandleFilesStep /\ batches'[Len(batches')] # <<>>
           /\ ValidOf(batches'[Len(batches')]) = <<>>) =>
            /\ uploads' = uploads
            /\ calls' = calls
            /\ Len(NewToasts) = 1
      ]_vars

\* C17 amended: a call of handleFiles in which every file fails validation
\* adds no item, issues no request and raises, after the one notification of
\* each rejected file, a single 'No valid files to upload' notification.
C17_AbortNotification ==
    [][(HandleFilesStep /\ batches'[Len(batches')] # <<>>
           /\ ValidOf(batches'[Len(batches')]) = <<>>) =>
            LET files == batches'[Len(batches')] IN
            /\ uploads' = uploads
            /\ calls' = calls
            /\ Len(NewToasts) = Len(files) + 1
            /\ \A k \in 1..Len(files) : NewToasts[k].text \in RejectionTexts(files[k])
            /\ NewToasts[Len(files) + 1] =
                   [level |-> "error", text |-> "No valid files to upload"]
      ]_vars

\* an oversized text file and an oversized PDF were dropped together
C17_Witness ==
    /\ lastOp = "handleFiles"
    /\ Len(batches) = 1
    /\ Len(batches[1]) = 2
    /\ uploads = <<>>
    /\ calls = <<>>
    /\ Len(toasts) = 3
    /\ toasts[1].text = "dump.txt is not a PDF file"
    /\ toasts[2].text = "big.pdf exceeds maximum size of 10MB"
    /\ toasts[3].text = "No valid files to upload"


\* the upload items with one of the statuses a clear has to keep
KeptItems == SelectSeq(uploads, LAMBDA u : u.status \in {"pending", "uploading", "error"})

\* C23: a step that removes upload items leaves exactly the items that are
\* pending, uploading or in error, each with all its fields and in their old
\* order, and no complete one; and a clear in the middle of a batch takes
\* nothing from the files still on their way: the file of a request in flight
\* always has its own item, in status uploading, a file waiting for its turn
\* has its own pending item, and the step that settles the request gives that
\* item a terminal status.
C23_ClearKeepsOthers ==
    /\ [][Len(uploads') < Len(uploads) => uploads' = KeptItems]_vars
    /\ [](\A c \in DOMAIN calls :
            (calls[c].op = "uploadDocument" /\ calls[c].pc \in {"inflight", "waiting"}) =>
                /\ StatusOf(calls[c].cont.file.ref) = "uploading"
                /\ \A k \in 1..Len(calls[c].cont.rest) :
                       StatusOf(calls[c].cont.rest[k].ref) = "pending")
    /\ [][\A c \in DOMAIN calls :
            (/\ calls[c].op = "uploadDocument"
             /\ calls[c].pc = "inflight"
             /\ calls'[c].pc \in {"resolved", "rejected"}) =>
                \E i \in 1..Len(uploads) :
                    /\ uploads[i].file.ref = calls[c].cont.file.ref
                    /\ Len(uploads') = Len(uploads)
                    /\ uploads'[i].file = uploads[i].file
                    /\ uploads'[i].status =
                          IF calls'[c].pc = "resolved" THEN "complete" ELSE "error"
      ]_vars

\* the first file of a batch of two was uploaded and cleared while the second
\* was on its way, and the second has completed on its own item since
C23_Witness ==
    /\ Len(batches) = 1
    /\ Len(batches[1]) = 2
    /\ Len(calls) = 2
    /\ calls[1].pc = "resolved"
    /\ calls[2].pc = "resolved"
    /\ Len(uploads) = 1
    /\ uploads[1].file.name = "b.pdf"
    /\ uploads[1].file.ref = calls[2].cont.file.ref
    /\ uploads[1].status = "complete"
    /\ uploads[1].progress = 100


\* C27: at any moment at most one upload item has status uploading and at
\* most one upload request is in flight, a second drop or selection while an
\* earlier batch is running included. Checked under SpecUploadTwice.
C27_OneUploadAtATime ==
    /\ Cardinality({i \in 1..Len(uploads) : uploads[i].status = "uploading"}) <= 1
    /\ Cardinality({c \in DOMAIN calls :
                       calls[c].op = "uploadDocument" /\ calls[c].pc = "inflight"}) <= 1


----------------------------------------------------------------------------
(* Properties of the stores across the pages, checked under SpecApp *)

\* a chat message that is resolved: a user message, or an assistant message
\* whose loading flag has been cleared
ResolvedMessage(m) == m.role = "user" \/ ~m.isLoading

\* a studio job in a terminal status
TerminalJob(job) == job.status \in {"complete", "error"}

\* C13: no step of the chat, studio or upload flows changes a chat message
\* that is resolved or a studio job that is complete or in error: the record
\* with the same id is the same record after the step.
C13_TerminalFinal ==
    [][/\ \A i \in 1..Len(messages) : \A j \in 1..Len(messages') :
              (messages'[j].id = messages[i].id /\ ResolvedMessage(messages[i]))
                  => messages'[j] = messages[i]
       /\ \A i \in 1..Len(jobs) : \A j \in 1..Len(jobs') :
              (jobs'[j].id = jobs[i].id /\ TerminalJob(jobs[i]))
                  => jobs'[j] = jobs[i]
      ]_vars

\* a generation was started and completed after a chat exchange had failed
C13_Witness ==
    /\ Len(messages) = 2
    /\ messages[2].isLoading = FALSE
    /\ messages[2].content = "Error: Document not found"
    /\ Len(jobs) = 1
    /\ jobs[1].status = "complete"
    /\ Len(calls) = 2
    /\ calls[1].op = "query"
    /\ calls[1].pc = "rejected"
    /\ calls[2].op = "studio"
    /\ calls[2].pc = "resolved"

----------------------------------------------------------------------------
(* Properties of the documents page and the query layer, checked under    *)
(* SpecDocs / SpecQuery                                                    *)

\* the step rejects call c
Rejects(c) == calls[c].pc = "inflight" /\ calls'[c].pc = "rejected"

\* the step resolves call c
Resolves(c) == calls[c].pc = "inflight" /\ calls'[c].pc = "resolved"

\* the step answers the first attempt of call c with `status`
FirstAnswer(c, status) ==
    /\ calls[c].pc = "inflight"
    /\ calls[c].attempts = 1
    /\ calls'[c].pc # "inflight"
    /\ calls'[c].raised # NoError
    /\ calls'[c].raised.status = status

\* C21: when the backend answers the deletion of a document with a 404, the
\* facade rejects at once, after exactly one attempt and without a retry,
\* and the page removes the row of the document from its list and raises a
\* notification.
C21_NotFoundRowRemoved ==
    [][\A c \in DOMAIN calls :
          (calls[c].op = "deleteDocument" /\ FirstAnswer(c, 404)) =>
              /\ calls'[c].pc = "rejected"
              /\ calls'[c].attempts = 1
              /\ calls'[c].waits = <<>>
              /\ Len(toasts') = Len(toasts) + 1
              /\ ~(calls[c].request.docId \in Rows(documents'))
      ]_vars

\* the step ends an operation a page has triggered in failure: its request is
\* rejected and the query layer does not try again, or the studio answers
\* with status error
FinallyFails(c) ==
    \/ /\ Rejects(c)
       /\ calls[c].cont.kind # "none"
       /\ calls[c].cont.kind = "documents" =>
              ~queriesRetry(documents.failureCount, calls'[c].err)
    \/ /\ Resolves(c)
       /\ calls[c].cont.kind = "studio"
       /\ calls'[c].data.status = "error"

\* C22: every operation triggered from a page that ends in failure (the load
\* of the document list, an upload, a deletion, a chat query, a generation,
\* a studio answer with status error included) raises at least one
\* notification.
C22_FailureNotified ==
    [][\A c \in DOMAIN calls : FinallyFails(c) => Len(toasts') > Len(toasts)]_vars

\* the error is a response with a 4xx status
ClientError(error) == error.response /\ error.status \in 400..499

\* the requests the query layer has sent for fetch number k
TriesOf(k) ==
    {c \in DOMAIN calls : calls[c].cont.kind = "documents" /\ calls[c].cont.fetch = k}

\* C24: when a request of the document-list query is rejected with a 4xx
\* status, the query layer does not try again and the query is in error;
\* rejected otherwise, the query is tried again exactly while fewer than two
\* retries were made, so that a fetch sends at most three requests, each
\* after a failure of the one before that was not a 4xx; and a rejected
\* mutation is never sent again by the query layer: only handleDeleteConfirm
\* issues a deletion.
C24_QueryLayerRetry ==
    /\ [][\A c \in DOMAIN calls :
            (Rejects(c) /\ calls[c].cont.kind = "documents") =>
                /\ Len(calls') = Len(calls)
                /\ IF ClientError(calls'[c].err) \/ documents.failureCount >= 2
                   THEN /\ documents'.status = "error"
                        /\ documents'.fetchStatus = "idle"
                        /\ documents'.error = calls'[c].err
                   ELSE /\ documents'.fetchStatus = "fetching"
                        /\ documents'.status = documents.status
                        /\ documents'.failureCount = documents.failureCount + 1
        ]_vars
    /\ [](\A k \in 1..documents.fetchCount :
            /\ Cardinality(TriesOf(k)) <= 3
            /\ \A c, d \in TriesOf(k) :
                   c < d => calls[c].pc = "rejected" /\ ~ClientError(calls[c].err))
    /\ [][\A c \in DOMAIN calls :
            (Rejects(c) /\ calls[c].op = "deleteDocument") =>
                Len(calls') = Len(calls)
        ]_vars
    /\ [][(Len(calls') > Len(calls) /\ calls'[Len(calls')].op = "deleteDocument")
            => lastOp' = "handleDeleteConfirm"
        ]_vars

\* the list failed to load after three tries of the query layer, the last one
\* answered with a 503 on each of its four attempts
C24_Witness ==
    /\ documents.status = "error"
    /\ documents.fetchStatus = "idle"
    /\ documents.failureCount = 3
    /\ Len(calls) = 3
    /\ TriesOf(1) = {1, 2, 3}
    /\ calls[3].pc = "rejected"
    /\ calls[3].attempts = 4
    /\ calls[3].err.status = 503

\* HTTP requests sent so far by the facade calls in S
RECURSIVE Requests(_)
Requests(S) ==
    IF S = {} THEN 0
    ELSE LET c == CHOOSE c \in S : TRUE IN calls[c].attempts + Requests(S \ {c})

\* the first request the query layer sent for fetch number k
FirstTry(k) == CHOOSE c \in TriesOf(k) : \A d \in TriesOf(k) : c <= d

\* fetch number k is over and has failed
FetchFailed(k) ==
    /\ \A c \in TriesOf(k) : calls[c].pc = "rejected"
    /\ \/ Cardinality(TriesOf(k)) = 3
       \/ \E c \in TriesOf(k) : ClientError(calls[c].err)

\* C25: one fetch of the document list through useDocuments sends at most 12
\* HTTP requests, 3 tries of the query layer with at most 4 attempts of the
\* transport each; when its first try ends with a 4xx, a 429 after the
\* transport's retries or a status the transport does not retry, it sends at
\* most 4 (exactly 1 for a status other than 429 at the first attempt); and
\* when the last fetch has failed, the query is in error with the final error.
C25_FetchAttempts ==
    /\ \A k \in 1..documents.fetchCount :
          /\ TriesOf(k) # {}
          /\ \A c \in TriesOf(k) : calls[c].attempts <= MAX_RETRIES + 1
          /\ Requests(TriesOf(k)) <= 3 * (MAX_RETRIES + 1)
          /\ LET first == calls[FirstTry(k)] IN
                (first.pc = "rejected" /\ ClientError(first.err)) =>
                    /\ Requests(TriesOf(k)) <= MAX_RETRIES + 1
                    /\ (first.waits = <<>> /\ first.err.status # 429) =>
                           Requests(TriesOf(k)) = 1
    /\ (documents.fetchCount > 0 /\ FetchFailed(documents.fetchCount)) =>
          /\ documents.status = "error"
          /\ documents.fetchStatus = "idle"
          /\ \E c \in TriesOf(documents.fetchCount) : documents.error = calls[c].err

\* the backend was out of reach for a whole fetch: three tries of four
\* attempts each, twelve requests, and the query is in error
C25_Witness ==
    /\ documents.fetchCount = 1
    /\ Requests(TriesOf(1)) = 12
    /\ \A c \in TriesOf(1) : calls[c].pc = "rejected" /\ ~calls[c].err.response
    /\ documents.status = "error"
    /\ documents.error.message = "Network error: Unable to reach server"

\* call c is a mutation of useUploadDocument or useDeleteDocument
Mutation(c) == calls[c].op \in {"uploadDocument", "deleteDocument"}

\* the requests for the document list sent so far
ListRequests(cs) == {c \in DOMAIN cs : cs[c].op = "getDocuments"}

\* C29: the cached document list is invalidated exactly by the success of an
\* upload or of a deletion: the step that resolves one marks a cached list as
\* invalidated and, for an open page, starts a new fetch of it; no other step
\* marks it, and a fetch starts only there or when the page is opened; the
\* step that rejects an upload or a deletion leaves the whole cache entry,
\* every cached row included, as it was and sends no request for the list.
C29_InvalidatedOnSuccess ==
    /\ [][\A c \in DOMAIN calls :
            (Mutation(c) /\ Resolves(c) /\ documents.built) =>
                /\ documents'.isInvalidated
                /\ documents'.data = documents.data
                /\ (documents.observers > 0 /\ documents.fetchStatus = "idle") =>
                       /\ documents'.fetchStatus = "fetching"
                       /\ documents'.fetchCount = documents.fetchCount + 1
                       /\ ListRequests(calls') = ListRequests(calls) \cup {Len(calls')}
                       /\ Len(calls') > Len(calls)
        ]_vars
    /\ [][\A c \in DOMAIN calls :
            (Mutation(c) /\ Rejects(c)) =>
                /\ documents' = documents
                /\ ListRequests(calls') = ListRequests(calls)
        ]_vars
    /\ [][((documents'.isInvalidated /\ ~documents.isInvalidated)
             \/ (documents'.fetchCount > documents.fetchCount
                   /\ documents'.observers = documents.observers))
            => \E c \in DOMAIN calls : Mutation(c) /\ Resolves(c)
        ]_vars

\* doc-1 was deleted on the open page: the list it is still shown in is
\* marked as invalidated and its second fetch is in flight
C29_Witness ==
    /\ Len(calls) = 3
    /\ calls[2].op = "deleteDocument"
    /\ calls[2].pc = "resolved"
    /\ calls[3].op = "getDocuments"
    /\ calls[3].pc = "inflight"
    /\ documents.observers = 1
    /\ documents.isInvalidated
    /\ documents.fetchStatus = "fetching"
    /\ documents.fetchCount = 2
    /\ documents.data = [documents |-> <<"doc-1">>]
    /\ toasts = <<[level |-> "success", text |-> "Document deleted successfully"]>>

====
